---- MODULE Spec2Model ----
(***************************************************************************)
(* Navigation-confinement guards of the builder-only mode:                 *)
(*   BuilderOnlyGuard      (components/guards/BuilderOnlyGuard.tsx)        *)
(*   RouteBlocker          (components/common/RouteBlocker.tsx)            *)
(*   usePreventNavigation  (hooks/use-prevent-navigation.ts)               *)
(* One instance of one of the three is mounted over a browser history      *)
(* stack and a router.  The host (history stack, router, popstate          *)
(* dispatch, React's effect scheduling) follows spec.md section 6: the     *)
(* router consults the guard's blocker callback before it commits an       *)
(* in-app navigation; a native back/forward is out of band: it moves the   *)
(* history index, the router adopts the new location, and the popstate     *)
(* listeners run in the same task.  Effects run in a later step than the   *)
(* event that changed the location.                                        *)
(***************************************************************************)
EXTENDS Integers, Sequences, FiniteSets, TLC

\* ---------------------------------------------------------------- bounds
\* Largest history stack explored (pushes are disabled beyond it).
MaxHist == 3
\* Largest number of history.go(-1) calls waiting for their popstate.
MaxPendingGo == 1
\* The count of consecutive blocked back attempts stops growing here.
MaxRun == 2
\* Longest tail of "/" and "a" appended to a head of a pattern input.
MaxTail == 3

\* ----------------------------------------------------------------- paths
FlowA    == "/flow/a"
FlowB    == "/flow/b"
Settings == "/settings"
Root     == "/"

Paths == {FlowA, FlowB, Settings, Root}

\* The paths the documentation classifies, and the transition it names.
FlowAbc    == "/flow/abc"
Flow123    == "/flow/123-456"
FlowAnyId  == "/flow/any-flow-id"
FlowSlash  == "/flow/"
FlowBare   == "/flow"
Flows      == "/flows"
FlowId     == "/flow/id"
FlowIdView == "/flow/id/view"

DocPaths == {FlowAbc, Flow123, FlowAnyId, FlowSlash, FlowBare, Flows, FlowId,
             FlowIdView}

\* The characters of a path: the pattern is tested on these.
Chars(p) ==
  CASE p = FlowA      -> <<"/", "f", "l", "o", "w", "/", "a">>
    [] p = FlowB      -> <<"/", "f", "l", "o", "w", "/", "b">>
    [] p = Settings   -> <<"/", "s", "e", "t", "t", "i", "n", "g", "s">>
    [] p = Root       -> <<"/">>
    [] p = FlowAbc    -> <<"/", "f", "l", "o", "w", "/", "a", "b", "c">>
    [] p = Flow123    -> <<"/", "f", "l", "o", "w", "/", "1", "2", "3", "-",
                        "4", "5", "6">>
    [] p = FlowAnyId  -> <<"/", "f", "l", "o", "w", "/", "a", "n", "y", "-",
                        "f", "l", "o", "w", "-", "i", "d">>
    [] p = FlowSlash  -> <<"/", "f", "l", "o", "w", "/">>
    [] p = FlowBare   -> <<"/", "f", "l", "o", "w">>
    [] p = Flows      -> <<"/", "f", "l", "o", "w", "s">>
    [] p = FlowId     -> <<"/", "f", "l", "o", "w", "/", "i", "d">>
    [] p = FlowIdView -> <<"/", "f", "l", "o", "w", "/", "i", "d", "/", "v",
                        "i", "e", "w">>

\* The literal prefix of /^\/flow\/[^/]+/ .
FlowPrefix == <<"/", "f", "l", "o", "w", "/">>

\* The pattern without its [^/]+ part.
ALLOWED_FLOW_PATTERN_test_prefixOnly(c) ==
  /\ Len(c) >= Len(FlowPrefix)
  /\ SubSeq(c, 1, Len(FlowPrefix)) = FlowPrefix

\* RegExp.test for /^\/flow\/[^/]+/ on the characters c: anchored at the
\* start only; the literal "/flow/" and then at least one character that is
\* not "/".
ALLOWED_FLOW_PATTERN_test(c) ==
  /\ Len(c) >= Len(FlowPrefix) + 1
  /\ SubSeq(c, 1, Len(FlowPrefix)) = FlowPrefix
  /\ c[Len(FlowPrefix) + 1] # "/"

\* ALLOWED_FLOW_PATTERN.test(path)
ALLOWED_FLOW_PATTERN(path) == ALLOWED_FLOW_PATTERN_test(Chars(path))

\* The allowedPattern prop of RouteBlocker and usePreventNavigation, here the
\* pattern the documentation instantiates them with.
allowedPattern(path) == ALLOWED_FLOW_PATTERN(path)

\* ----------------------------------------------------------------- state
Kinds == {"BuilderOnlyGuard", "RouteBlocker", "usePreventNavigation"}
Null == "null"

VARIABLES
  kind,                \* which of the three guards is mounted
  enabled,             \* ENABLE_BUILDER_ONLY_MODE / the enabled prop
  mounted,             \* the guard is mounted
  mountPath,           \* the location the guard was mounted at
  entries,             \* browser history stack (window.history)
  idx,                 \* index of the current history entry
  routerLoc,           \* the router's location.pathname (what is rendered)
  blockerState,        \* blocker.state: "unblocked" or "blocked"
  blockerLocation,     \* blocker.location (Null when unblocked)
  renderedPath,        \* pathname of the last render whose effects have run
  lastValidFlowRoute,  \* BuilderOnlyGuard: lastValidFlowRoute.current
  listeners,           \* the popstate handlers of the guard that are registered
  handlerPath,         \* the path that handler navigates to (its closure)
  pendingGo,           \* history.go(-1) calls whose popstate is still due
  ev,                  \* the last operation, its inputs and what it issued
  run,                 \* the current run of consecutive blocked back attempts
  NODE_ENV,            \* process.env.NODE_ENV of the build
  console,             \* the console.warn records of the last operation
  probe,               \* the characters of a path handed to the pattern
  verdict,             \* what the pattern, or the blocker, said of it
  seen,                \* the last matching location an effects pass ran for
                       \* (kept by the specification of the effects pass)
  node,                \* data.node of a RenderInputParameters component
  isToolMode,          \* its isToolMode prop
  shown,               \* shownTemplateFields of its last render
  setNodeCall,         \* the node its default-values effect passed to
                       \* setNode when it last ran, NoNode when it did not call
  env,                 \* import.meta.env: the three VITE_DEFAULT_AGENT_*
                       \* variables of the build
  twin                 \* a RouteBlocker given the events the mounted
                       \* BuilderOnlyGuard is given, NoTwin when there is none

vars == <<kind, enabled, mounted, mountPath, entries, idx, routerLoc,
          blockerState, blockerLocation, renderedPath, lastValidFlowRoute,
          listeners, handlerPath, pendingGo, ev, run, NODE_ENV, console,
          probe, verdict, seen, node, isToolMode, shown, setNodeCall, env,
          twin>>

nodeVars == <<node, isToolMode, shown, setNodeCall, env>>

\* A variable the .env file of the build does not set.
Undefined == "undefined"

\* The build sets none of the three variables.
NoEnv == [api_key |-> Undefined, agent_llm |-> Undefined,
          model_name |-> Undefined]

\* No RouteBlocker runs next to the guard.
NoTwin == [kind |-> "none"]

\* No node component is rendered.
NoNode == [display_name |-> "none"]

NoNodeState ==
  /\ node = NoNode
  /\ isToolMode = FALSE
  /\ shown = {}
  /\ setNodeCall = NoNode
  /\ env = NoEnv
  /\ twin = NoTwin

\* A popstate handler of the guard is registered.
listener == listeners > 0

\* The part of the state the handlers and effects work on, as a record;
\* kind names the component whose callbacks, handlers and effects run.
Cur ==
  [kind |-> kind, entries |-> entries, idx |-> idx, routerLoc |-> routerLoc,
   blockerState |-> blockerState, blockerLocation |-> blockerLocation,
   lastValidFlowRoute |-> lastValidFlowRoute, listeners |-> listeners,
   handlerPath |-> handlerPath, pendingGo |-> pendingGo, calls |-> <<>>,
   logs |-> <<>>]

\* console.warn(tag, ...): the record names the component, the location the
\* navigation aimed at (Null when the message has none) and the current one.
warn(s, tag, attempted, current) ==
  [s EXCEPT !.logs = Append(@, [tag |-> tag, attempted |-> attempted,
                                current |-> current])]

\* A call the guard issued: fn is "replace", "push", "pushState" or "back".
Call(fn, to) == [fn |-> fn, to |-> to]

\* window.location.pathname
windowPath(s) == s.entries[s.idx]


\* ------------------------------------------------------- host: history
\* history.pushState: drops the forward entries and appends one.
HistoryPush(s, to) ==
  [s EXCEPT !.entries = Append(SubSeq(s.entries, 1, s.idx), to),
            !.idx = s.idx + 1]

\* history.replaceState: overwrites the current entry.
HistoryReplace(s, to) ==
  [s EXCEPT !.entries[s.idx] = to]

\* The router commits a navigation: history is written, the location it
\* renders changes, and a blocked blocker goes back to unblocked.
routerCommit(s, to, replace) ==
  LET h == IF replace THEN HistoryReplace(s, to) ELSE HistoryPush(s, to)
  IN  [h EXCEPT !.routerLoc = to,
                !.blockerState = "unblocked",
                !.blockerLocation = Null]

\* ------------------------------------------------ the blocker callbacks
\* Variants of the callbacks with one slip each, used to see that the
\* properties below depend on the callbacks.
BuilderOnlyGuard_blocker_anyCurrent(currentLocation, nextLocation) ==
  IF ~enabled THEN FALSE
  ELSE ~ALLOWED_FLOW_PATTERN(nextLocation)

BuilderOnlyGuard_blocker_noFlag(currentLocation, nextLocation) ==
  ALLOWED_FLOW_PATTERN(currentLocation) /\ ~ALLOWED_FLOW_PATTERN(nextLocation)

RouteBlocker_blocker_nextValid(currentLocation, nextLocation) ==
  IF ~enabled THEN FALSE
  ELSE allowedPattern(currentLocation) /\ allowedPattern(nextLocation)

\* The callback keeping a blocked blocker blocked.
BuilderOnlyGuard_blocker_sticky(currentLocation, nextLocation) ==
  IF ~enabled THEN FALSE
  ELSE \/ blockerState = "blocked"
       \/ ALLOWED_FLOW_PATTERN(currentLocation)
            /\ ~ALLOWED_FLOW_PATTERN(nextLocation)

BuilderOnlyGuard_blocker(currentLocation, nextLocation) ==
  IF ~enabled THEN FALSE
  ELSE LET isCurrentValid == ALLOWED_FLOW_PATTERN(currentLocation)
           isNextValid    == ALLOWED_FLOW_PATTERN(nextLocation)
       IN  isCurrentValid /\ ~isNextValid

RouteBlocker_blocker(currentLocation, nextLocation) ==
  IF ~enabled THEN FALSE
  ELSE LET isCurrentValid == allowedPattern(currentLocation)
           isNextValid    == allowedPattern(nextLocation)
       IN  isCurrentValid /\ ~isNextValid

\* The pre-commit hook of the router: the callback the mounted guard gave to
\* useBlocker; usePreventNavigation installs none.
shouldBlockNavigation(s, currentLocation, nextLocation) ==
  /\ mounted
  /\ CASE s.kind = "BuilderOnlyGuard" ->
            BuilderOnlyGuard_blocker(currentLocation, nextLocation)
       [] s.kind = "RouteBlocker" ->
            RouteBlocker_blocker(currentLocation, nextLocation)
       [] OTHER -> FALSE

\* router.navigate: a vetoed transition changes neither history nor the
\* rendered location, and puts the blocker in the blocked state.
routerNavigate(s, to, replace) ==
  IF shouldBlockNavigation(s, s.routerLoc, to)
  THEN [s EXCEPT !.blockerState = "blocked", !.blockerLocation = to]
  ELSE routerCommit(s, to, replace)

\* ------------------------------------- calls the guard's code can issue
\* navigate(to, { replace: true }) and navigate(to) of useNavigate
navigate(s, to, replace) ==
  routerNavigate(
    [s EXCEPT !.calls = Append(@, Call(IF replace THEN "replace" ELSE "push", to))],
    to, replace)

\* navigate(-1): history.go(-1); its popstate arrives in a later task.
navigateBack(s) ==
  [s EXCEPT !.calls = Append(@, Call("back", Null)),
            !.pendingGo = @ + 1]

\* window.history.pushState(null, '', to): the router is not told.
pushState(s, to) ==
  HistoryPush([s EXCEPT !.calls = Append(@, Call("pushState", to))], to)

\* ------------------------------------------------- the popstate handlers
\* The handler stepping back instead of returning to the captured path.
BuilderOnlyGuard_handlePopState_back(s) ==
  LET newPath == windowPath(s)
  IN  IF ~ALLOWED_FLOW_PATTERN(newPath)
      THEN navigateBack(s)
      ELSE s

BuilderOnlyGuard_handlePopState(s) ==
  LET newPath == windowPath(s)
  IN  IF ~ALLOWED_FLOW_PATTERN(newPath)
      THEN navigate(s, s.handlerPath, TRUE)
      ELSE s

\* The handler with its test the wrong way round.
RouteBlocker_handlePopState_inverted(s) ==
  LET newPath == windowPath(s)
  IN  IF allowedPattern(newPath)
      THEN navigate(s, s.handlerPath, TRUE)
      ELSE s

RouteBlocker_handlePopState(s) ==
  LET newPath == windowPath(s)
  IN  IF ~allowedPattern(newPath)
      THEN navigate(s, s.handlerPath, TRUE)
      ELSE s

\* The handler with the update of currentPath outside its else branch.
usePreventNavigation_handlePopState_alwaysUpdate(s) ==
  LET newPath == windowPath(s)
      c == IF ~allowedPattern(newPath)
           THEN navigate(pushState(s, s.handlerPath), s.handlerPath, TRUE)
           ELSE s
  IN  [c EXCEPT !.handlerPath = newPath]

usePreventNavigation_handlePopState(s) ==
  LET newPath == windowPath(s)
  IN  IF ~allowedPattern(newPath)
      THEN navigate(pushState(s, s.handlerPath), s.handlerPath, TRUE)
      ELSE [s EXCEPT !.handlerPath = newPath]

handlePopState(s) ==
  CASE s.kind = "BuilderOnlyGuard" -> BuilderOnlyGuard_handlePopState(s)
    [] s.kind = "RouteBlocker" -> RouteBlocker_handlePopState(s)
    [] OTHER -> usePreventNavigation_handlePopState(s)

\* A popstate event for history entry j: the index has moved, the router
\* adopts the entry's location, then the guard's listener (if any) runs.
popTo(s, j) ==
  LET s1 == [s EXCEPT !.idx = j,
                      !.routerLoc = s.entries[j],
                      !.blockerState = "unblocked",
                      !.blockerLocation = Null]
  IN  IF s1.listeners > 0 THEN handlePopState(s1) ELSE s1

\* ------------------------------------------------------------- effects
\* The tracker recording only the first valid route.
BuilderOnlyGuard_trackerEffect_firstOnly(s, currentPath) ==
  IF ALLOWED_FLOW_PATTERN(currentPath) /\ s.lastValidFlowRoute = Null
  THEN [s EXCEPT !.lastValidFlowRoute = currentPath]
  ELSE s

\* The tracker forgetting the route when the rendered one is not valid.
BuilderOnlyGuard_trackerEffect_resets(s, currentPath) ==
  [s EXCEPT !.lastValidFlowRoute =
     IF ALLOWED_FLOW_PATTERN(currentPath) THEN currentPath ELSE Null]

\* The tracker without its validity test.
BuilderOnlyGuard_trackerEffect_anyPath(s, currentPath) ==
  [s EXCEPT !.lastValidFlowRoute = currentPath]

\* BuilderOnlyGuard, first effect: the last-valid-route tracker.
BuilderOnlyGuard_trackerEffect(s, currentPath) ==
  LET isCurrentValid == ALLOWED_FLOW_PATTERN(currentPath)
  IN  IF isCurrentValid
      THEN [s EXCEPT !.lastValidFlowRoute = currentPath]
      ELSE s

\* The correction with a redirect to a fixed location as its fallback.
BuilderOnlyGuard_correctionEffect_default(s, currentPath) ==
  LET w == warn(s, "BuilderOnlyGuard: blocked access", Null, currentPath)
  IN  IF enabled /\ ~ALLOWED_FLOW_PATTERN(currentPath)
      THEN IF w.lastValidFlowRoute # Null
           THEN navigate(w, w.lastValidFlowRoute, TRUE)
           ELSE navigate(w, FlowA, TRUE)
      ELSE s

\* The correction with a redirect to the root location as its fallback.
BuilderOnlyGuard_correctionEffect_home(s, currentPath) ==
  LET w == warn(s, "BuilderOnlyGuard: blocked access", Null, currentPath)
  IN  IF enabled /\ ~ALLOWED_FLOW_PATTERN(currentPath)
      THEN IF w.lastValidFlowRoute # Null
           THEN navigate(w, w.lastValidFlowRoute, TRUE)
           ELSE navigate(w, Root, TRUE)
      ELSE s

\* BuilderOnlyGuard, second effect: the render-time correction.
BuilderOnlyGuard_correctionEffect(s, currentPath) ==
  LET isCurrentValid == ALLOWED_FLOW_PATTERN(currentPath)
      w == warn(s, "BuilderOnlyGuard: blocked access", Null, currentPath)
  IN  IF enabled /\ ~isCurrentValid
      THEN IF w.lastValidFlowRoute # Null
           THEN navigate(w, w.lastValidFlowRoute, TRUE)
           ELSE navigateBack(w)
      ELSE s

\* BuilderOnlyGuard, third effect: the log of a blocked navigation.
BuilderOnlyGuard_logEffect(s) ==
  IF s.blockerState = "blocked" /\ NODE_ENV = "development"
  THEN warn(s, "BuilderOnlyGuard: navigation blocked", s.blockerLocation,
            s.routerLoc)
  ELSE s

\* RouteBlocker, first effect: the log of a blocked navigation.
RouteBlocker_logEffect(s) ==
  IF s.blockerState = "blocked" /\ NODE_ENV = "development"
  THEN warn(s, "RouteBlocker: navigation blocked", s.blockerLocation,
            s.routerLoc)
  ELSE s

\* The log effect of the mounted component; the hook has none.
logEffect(s) ==
  CASE s.kind = "BuilderOnlyGuard" -> BuilderOnlyGuard_logEffect(s)
    [] s.kind = "RouteBlocker" -> RouteBlocker_logEffect(s)
    [] OTHER -> s

\* The subscription without its early return on the flag.
BuilderOnlyGuard_popstateEffect_noFlag(s, pathname) ==
  IF ~ALLOWED_FLOW_PATTERN(pathname) THEN s
  ELSE [s EXCEPT !.listeners = @ + 1, !.handlerPath = pathname]

\* BuilderOnlyGuard, last effect: the popstate subscription.
BuilderOnlyGuard_popstateEffect(s, pathname) ==
  IF ~enabled THEN s
  ELSE IF ~ALLOWED_FLOW_PATTERN(pathname) THEN s
  ELSE [s EXCEPT !.listeners = @ + 1, !.handlerPath = pathname]

\* The subscription without its early return on the rendered location.
RouteBlocker_popstateEffect_anyPath(s, pathname) ==
  IF ~enabled THEN s
  ELSE [s EXCEPT !.listeners = @ + 1, !.handlerPath = pathname]

RouteBlocker_popstateEffect(s, pathname) ==
  IF ~enabled THEN s
  ELSE IF ~allowedPattern(pathname) THEN s
  ELSE [s EXCEPT !.listeners = @ + 1, !.handlerPath = pathname]

\* The hook's effect without the pushState of its activation.
usePreventNavigation_effect_noPush(s, pathname) ==
  IF ~enabled THEN s
  ELSE IF ~allowedPattern(pathname) THEN s
  ELSE [s EXCEPT !.listeners = @ + 1, !.handlerPath = pathname]

usePreventNavigation_effect(s, pathname) ==
  IF ~enabled THEN s
  ELSE LET currentPath == pathname
           isCurrentPathValid == allowedPattern(currentPath)
       IN  IF ~isCurrentPathValid THEN s
           ELSE [pushState(s, currentPath) EXCEPT !.listeners = @ + 1,
                                                  !.handlerPath = currentPath]

\* A cleanup that leaves the listener subscribed.
cleanup_keeps(s) == s

\* The effect's cleanup: window.removeEventListener("popstate", ...) for the
\* handler the effect added.
cleanup(s) ==
  [s EXCEPT !.listeners = IF @ > 0 THEN @ - 1 ELSE @, !.handlerPath = Null]

\* One effects pass of a render at `path`: the cleanups of the previous
\* pass, then the component's effects in source order.
runEffects(s, path) ==
  LET c == cleanup(s)
  IN  CASE s.kind = "BuilderOnlyGuard" ->
             BuilderOnlyGuard_popstateEffect(
               BuilderOnlyGuard_logEffect(
                 BuilderOnlyGuard_correctionEffect(
                   BuilderOnlyGuard_trackerEffect(c, path), path)), path)
        [] s.kind = "RouteBlocker" ->
             RouteBlocker_popstateEffect(RouteBlocker_logEffect(c), path)
        [] OTHER -> usePreventNavigation_effect(c, path)


\* ------------------------------------------------------------- actions
\* The record of an operation: what it was, the location it was about,
\* whether the router vetoed it, and the calls the guard issued while it ran.
Event(op, to, vetoed, calls) ==
  [op |-> op, to |-> to, vetoed |-> vetoed, calls |-> calls]

\* The state after an operation; the bounds of the exploration are checked
\* on the result.
Commit(r, e) ==
  /\ Len(r.entries) <= MaxHist
  /\ r.pendingGo <= MaxPendingGo
  /\ entries' = r.entries
  /\ idx' = r.idx
  /\ routerLoc' = r.routerLoc
  /\ blockerState' = r.blockerState
  /\ blockerLocation' = r.blockerLocation
  /\ lastValidFlowRoute' = r.lastValidFlowRoute
  /\ listeners' = r.listeners
  /\ handlerPath' = r.handlerPath
  /\ pendingGo' = r.pendingGo
  /\ ev' = e
  /\ console' = r.logs
  /\ UNCHANGED <<kind, enabled, mountPath, NODE_ENV, probe, verdict, nodeVars>>

\* No path has been handed to the pattern.
NoVerdict == [op |-> "none"]

\* No run of blocked back attempts is going on.
NoRun == [n |-> 0]

\* The native back by one entry is a blocked attempt from a confined state:
\* the guard is enabled with its handler registered, the rendered location
\* matches the pattern and the entry below does not.
BlockedBack(j) ==
  /\ j = idx - 1
  /\ enabled /\ mounted /\ listener
  /\ ALLOWED_FLOW_PATTERN(routerLoc)
  /\ ~ALLOWED_FLOW_PATTERN(entries[j])

\* The run after a native pop to entry j that ended in r: the first blocked
\* attempt records where it ended, the next ones are counted.
NextRun(j, r) ==
  IF ~BlockedBack(j) THEN NoRun
  ELSE IF run.n = 0
       THEN [n |-> 1, loc |-> r.routerLoc, entries |-> r.entries, idx |-> r.idx]
       ELSE [run EXCEPT !.n = IF @ < MaxRun THEN @ + 1 ELSE @]

\* An in-app navigation attempt (a link, a programmatic navigate of the
\* application): the router asks the blocker, then commits or not. A veto
\* changes blocker.state and blocker.location, the dependencies of the log
\* effect: the render that follows runs that effect and no other; it reads
\* nothing a later step writes and is taken as part of the vetoed attempt.
navigateStep(s, to, replace) ==
  LET n == routerNavigate(s, to, replace)
  IN  IF n.blockerState = "blocked" THEN logEffect(n) ELSE n

NavigateTo(to, replace) ==
  LET r == navigateStep(Cur, to, replace)
  IN  /\ Commit(r, Event("navigate", to, r.blockerState = "blocked", r.calls))
      /\ run' = NoRun
      /\ UNCHANGED <<mounted, renderedPath, seen>>

Navigate ==
  \E to \in Paths, replace \in BOOLEAN :
    /\ NavigateTo(to, replace)
    /\ UNCHANGED twin

\* The user's native back/forward to history entry j.
NativePopTo(j) ==
  LET r == popTo(Cur, j)
  IN  /\ Commit(r, Event("pop", entries[j], FALSE, r.calls))
      /\ run' = NextRun(j, r)
      /\ UNCHANGED <<mounted, renderedPath, seen>>

NativePop ==
  \E j \in (1..Len(entries)) \ {idx} :
    /\ NativePopTo(j)
    /\ UNCHANGED twin

\* The popstate of a history.go(-1) the guard issued; at the bottom of the
\* stack the call does nothing.
DeliverGo ==
  /\ pendingGo > 0
  /\ LET s == [Cur EXCEPT !.pendingGo = @ - 1]
         r == IF idx > 1 THEN popTo(s, idx - 1) ELSE s
     IN  /\ Commit(r, Event("go", IF idx > 1 THEN entries[idx - 1] ELSE Null,
                            FALSE, r.calls))
         /\ run' = NoRun
         /\ UNCHANGED <<mounted, renderedPath, seen, twin>>

\* React renders the new location and runs the effects whose dependencies
\* (the pathname) changed.
renderPass ==
  /\ mounted
  /\ renderedPath # routerLoc
  /\ LET r == runEffects(Cur, routerLoc)
     IN  /\ Commit(r, Event("render", routerLoc, FALSE, r.calls))
         /\ renderedPath' = routerLoc
         /\ run' = NoRun
         /\ UNCHANGED <<mounted, seen>>

RenderEffects ==
  /\ renderPass
  /\ UNCHANGED twin

\* The guard is unmounted: cleanups run, the blocker and the ref are gone.
unmountStep(s) ==
  [cleanup(s) EXCEPT !.blockerState = "unblocked",
                     !.blockerLocation = Null,
                     !.lastValidFlowRoute = Null]

unmountGuard ==
  /\ mounted
  /\ LET r == unmountStep(Cur)
     IN  /\ Commit(r, Event("unmount", Null, FALSE, r.calls))
         /\ mounted' = FALSE
         /\ renderedPath' = Null
         /\ run' = NoRun
         /\ UNCHANGED seen

Unmount ==
  /\ unmountGuard
  /\ UNCHANGED twin

\* The guard has just been mounted at entries[idx] of some history stack and
\* the effects of its first render have run, in a build of either mode.
InitBuild ==
  /\ NODE_ENV \in {"development", "production"}
  /\ kind \in Kinds
  /\ enabled \in BOOLEAN
  /\ mounted = TRUE
  /\ \E n \in 1..MaxHist :
       \E e0 \in [1..n -> Paths], i0 \in 1..n :
         LET s0 == [kind |-> kind, entries |-> e0, idx |-> i0,
                    routerLoc |-> e0[i0],
                    blockerState |-> "unblocked", blockerLocation |-> Null,
                    lastValidFlowRoute |-> Null, listeners |-> 0,
                    handlerPath |-> Null, pendingGo |-> 0, calls |-> <<>>,
                    logs |-> <<>>]
             r  == runEffects(s0, e0[i0])
         IN  /\ Len(r.entries) <= MaxHist
             /\ mountPath = e0[i0]
             /\ entries = r.entries
             /\ idx = r.idx
             /\ routerLoc = r.routerLoc
             /\ blockerState = r.blockerState
             /\ blockerLocation = r.blockerLocation
             /\ renderedPath = e0[i0]
             /\ lastValidFlowRoute = r.lastValidFlowRoute
             /\ listeners = r.listeners
             /\ handlerPath = r.handlerPath
             /\ pendingGo = r.pendingGo
             /\ ev = [op |-> "mount", to |-> e0[i0], vetoed |-> FALSE,
                      calls |-> r.calls]
             /\ console = r.logs
             /\ run = NoRun
  /\ probe = <<>>
  /\ verdict = NoVerdict
  /\ seen = Null
  /\ NoNodeState

\* The same in the production build.
Init == InitBuild /\ NODE_ENV = "production"

Next ==
  \/ Navigate
  \/ NativePop
  \/ DeliverGo
  \/ RenderEffects
  \/ Unmount

Spec == Init /\ [][Next]_vars

\* The guard in a build of either mode.
SpecBuild == InitBuild /\ [][Next]_vars

\* ------------------------------------ the guard and RouteBlocker
\* The state of the RouteBlocker after a step that ended in r: what it
\* has rendered and its last event are kept next to it.
Twin(r, rendered, e) ==
  [s |-> [r EXCEPT !.calls = <<>>, !.logs = <<>>], renderedPath |-> rendered,
   ev |-> e]

\* BuilderOnlyGuard and <RouteBlocker enabled={ENABLE_BUILDER_ONLY_MODE}
\* allowedPattern={ALLOWED_FLOW_PATTERN}> have each been mounted at a
\* matching entry entries[idx] of the same history stack, each in an
\* application of its own, and the effects of their first renders have run.
InitPair ==
  /\ NODE_ENV = "production"
  /\ kind = "BuilderOnlyGuard"
  /\ enabled \in BOOLEAN
  /\ mounted = TRUE
  /\ \E n \in 1..MaxHist :
       \E e0 \in [1..n -> Paths], i0 \in 1..n :
         LET s0 == [kind |-> kind, entries |-> e0, idx |-> i0,
                    routerLoc |-> e0[i0],
                    blockerState |-> "unblocked", blockerLocation |-> Null,
                    lastValidFlowRoute |-> Null, listeners |-> 0,
                    handlerPath |-> Null, pendingGo |-> 0, calls |-> <<>>,
                    logs |-> <<>>]
             r  == runEffects(s0, e0[i0])
             t  == runEffects([s0 EXCEPT !.kind = "RouteBlocker"], e0[i0])
         IN  /\ ALLOWED_FLOW_PATTERN(e0[i0])
             /\ Len(r.entries) <= MaxHist
             /\ mountPath = e0[i0]
             /\ entries = r.entries
             /\ idx = r.idx
             /\ routerLoc = r.routerLoc
             /\ blockerState = r.blockerState
             /\ blockerLocation = r.blockerLocation
             /\ renderedPath = e0[i0]
             /\ lastValidFlowRoute = r.lastValidFlowRoute
             /\ listeners = r.listeners
             /\ handlerPath = r.handlerPath
             /\ pendingGo = r.pendingGo
             /\ ev = Event("mount", e0[i0], FALSE, r.calls)
             /\ console = r.logs
             /\ twin = Twin(t, e0[i0], Event("mount", e0[i0], FALSE, t.calls))
  /\ run = NoRun
  /\ probe = <<>>
  /\ verdict = NoVerdict
  /\ seen = Null
  /\ node = NoNode
  /\ isToolMode = FALSE
  /\ shown = {}
  /\ setNodeCall = NoNode
  /\ env = NoEnv

\* The same in-app navigation attempt in both applications.
PairNavigate ==
  \E to \in Paths, replace \in BOOLEAN :
    /\ NavigateTo(to, replace)
    /\ LET r == navigateStep(twin.s, to, replace)
       IN  twin' = Twin(r, twin.renderedPath,
                        Event("navigate", to, r.blockerState = "blocked",
                              r.calls))

\* The same native back/forward, to the entry with the same index, in both.
PairNativePop ==
  \E j \in (1..Len(entries)) \ {idx} :
    /\ NativePopTo(j)
    /\ twin' =
         IF j \in (1..Len(twin.s.entries)) \ {twin.s.idx}
         THEN LET r == popTo(twin.s, j)
              IN  Twin(r, twin.renderedPath,
                       Event("pop", twin.s.entries[j], FALSE, r.calls))
         ELSE twin

\* React renders in both applications; the RouteBlocker runs its effects
\* if its pathname changed.
PairRenderEffects ==
  /\ renderPass
  /\ twin' =
       IF twin.renderedPath # twin.s.routerLoc
       THEN LET r == runEffects(twin.s, twin.s.routerLoc)
            IN  Twin(r, twin.s.routerLoc,
                     Event("render", twin.s.routerLoc, FALSE, r.calls))
       ELSE twin

\* Both are unmounted.
PairUnmount ==
  /\ unmountGuard
  /\ LET r == unmountStep(twin.s)
     IN  twin' = Twin(r, Null, Event("unmount", Null, FALSE, r.calls))

\* Neither component ever calls navigate(-1) from here (see C33), so no
\* history.go is in flight to be delivered.
NextPair ==
  \/ PairNavigate
  \/ PairNativePop
  \/ PairRenderEffects
  \/ PairUnmount

SpecPair == InitPair /\ [][NextPair]_vars

\* ------------------------------------------- the effects pass alone
\* BuilderOnlyGuard under a host that is not held to any order of events:
\* the guard is mounted at the only entry of a history stack.
InitPass ==
  /\ NODE_ENV = "production"
  /\ kind = "BuilderOnlyGuard"
  /\ enabled \in BOOLEAN
  /\ mounted = TRUE
  /\ \E p \in Paths :
       LET s0 == [kind |-> kind, entries |-> <<p>>, idx |-> 1,
                  routerLoc |-> p,
                  blockerState |-> "unblocked", blockerLocation |-> Null,
                  lastValidFlowRoute |-> Null, listeners |-> 0,
                  handlerPath |-> Null, pendingGo |-> 0, calls |-> <<>>,
                  logs |-> <<>>]
           r  == runEffects(s0, p)
       IN  /\ mountPath = p
           /\ entries = r.entries
           /\ idx = r.idx
           /\ routerLoc = r.routerLoc
           /\ blockerState = r.blockerState
           /\ blockerLocation = r.blockerLocation
           /\ renderedPath = p
           /\ lastValidFlowRoute = r.lastValidFlowRoute
           /\ listeners = r.listeners
           /\ handlerPath = r.handlerPath
           /\ pendingGo = r.pendingGo
           /\ ev = Event("mount", p, FALSE, r.calls)
           /\ console = r.logs
           /\ seen = IF ALLOWED_FLOW_PATTERN(p) THEN p ELSE Null
  /\ run = NoRun
  /\ probe = <<>>
  /\ verdict = NoVerdict
  /\ NoNodeState

\* The host shows another location p, reached by a push or a replace that
\* no blocker and no handler stopped, and React renders it and runs the
\* effects of BuilderOnlyGuard for it.
HostRender ==
  \E p \in Paths \ {renderedPath}, replace \in BOOLEAN :
    LET h == routerCommit(Cur, p, replace)
        r == runEffects(h, p)
    IN  /\ mounted
        /\ Commit(r, Event("render", p, FALSE, r.calls))
        /\ renderedPath' = p
        /\ seen' = IF ALLOWED_FLOW_PATTERN(p) THEN p ELSE seen
        /\ run' = NoRun
        /\ UNCHANGED <<mounted, twin>>

NextPass ==
  \/ HostRender
  \/ DeliverGo

SpecPass == InitPass /\ [][NextPass]_vars

\* ------------------------------------------------ the node component
\* The three fields of an Agent node that builder-only mode takes over.
AgentFields == {"agent_llm", "api_key", "model_name"}

\* a ?? b: b when a is undefined, a otherwise, the empty string included
Coalesce(a, b) == IF a = Undefined THEN b ELSE a

DEFAULT_AGENT_API_KEY == Coalesce(env.api_key, "sk-default-api-key")
DEFAULT_AGENT_LLM_PROVIDER == Coalesce(env.agent_llm, "OpenAI")
DEFAULT_AGENT_MODEL_NAME == Coalesce(env.model_name, "gpt-4o-mini")

\* The feature flag the component reads is the flag the guards are given.
ENABLE_BUILDER_ONLY_MODE == enabled

\* field.charAt(0)
charAt0(field) ==
  CASE field = "_type" -> "_"
    [] field = "agent_llm" -> "a"
    [] field = "api_key" -> "a"
    [] field = "model_name" -> "m"
    [] field = "input_value" -> "i"

\* A field of a template; "" is the empty value, the only falsy one drawn.
Values == {"", "user"}
FieldShapes ==
  [value : Values, show : BOOLEAN, advanced : BOOLEAN, tool_mode : BOOLEAN]
Absent == [absent |-> TRUE]

\* Object.keys(template) without the fields whose name begins with "_";
\* the order of the fields is left out.
templateFields(n) == {f \in DOMAIN n.template : charAt0(f) # "_"}

\* The filter without the branch for Agent nodes.
shownTemplateFields_noHide(n, tm) ==
  {templateField \in templateFields(n) :
     LET template == n.template[templateField]
     IN  template.show /\ ~template.advanced /\ ~(template.tool_mode /\ tm)}

shownTemplateFields(n, tm) ==
  {templateField \in templateFields(n) :
     LET template == n.template[templateField]
     IN  IF /\ ENABLE_BUILDER_ONLY_MODE /\ n.display_name = "Agent"
            /\ templateField \in AgentFields
         THEN FALSE
         ELSE template.show /\ ~template.advanced
                /\ ~(template.tool_mode /\ tm)}

DefaultOf(f) ==
  CASE f = "api_key" -> DEFAULT_AGENT_API_KEY
    [] f = "agent_llm" -> DEFAULT_AGENT_LLM_PROVIDER
    [] f = "model_name" -> DEFAULT_AGENT_MODEL_NAME

\* The fields the effect writes: those of the three that exist in the
\* template of an Agent node in builder-only mode and have a falsy value.
emptyAgentFields(n) ==
  {f \in DOMAIN n.template \cap AgentFields :
     /\ ENABLE_BUILDER_ONLY_MODE /\ n.display_name = "Agent"
     /\ n.template[f].value = ""}

\* The run of the effect as [node, call], writing the fields of fill: the
\* node after the run and the argument of setNode, NoNode when setNode is
\* not called.
defaultValuesEffect_run(n, fill, always) ==
  LET updatedTemplate ==
        [f \in DOMAIN n.template |->
           IF f \in fill THEN [n.template[f] EXCEPT !.value = DefaultOf(f)]
                         ELSE n.template[f]]
      hasChanges == fill # {}
      updatedNode == [n EXCEPT !.template = updatedTemplate]
  IN  IF hasChanges \/ always
        THEN [node |-> updatedNode, call |-> updatedNode]
        ELSE [node |-> n, call |-> NoNode]

\* The effect filling a field whether or not it has a value.
defaultValuesEffect_overwrite(n) ==
  defaultValuesEffect_run(
    n,
    {f \in DOMAIN n.template \cap AgentFields :
       ENABLE_BUILDER_ONLY_MODE /\ n.display_name = "Agent"},
    FALSE)

\* The effect calling setNode whether or not it filled a field.
defaultValuesEffect_alwaysCalls(n) ==
  defaultValuesEffect_run(n, emptyAgentFields(n), TRUE)

defaultValuesEffect(n) ==
  defaultValuesEffect_run(n, emptyAgentFields(n), FALSE)

\* A node of either display name whose template has any of the three Agent
\* fields, in any shape, next to an input field and a "_" field; the
\* component has rendered it once.
InitNode ==
  /\ enabled \in BOOLEAN
  /\ isToolMode \in BOOLEAN
  /\ \E name \in {"Agent", "Prompt"},
        h \in [AgentFields -> FieldShapes \cup {Absent}],
        i \in {x \in FieldShapes : x.value = "user"} :
       LET D == {f \in AgentFields : h[f] # Absent}
           template ==
             [f \in D \cup {"input_value", "_type"} |->
                IF f \in D THEN h[f]
                ELSE IF f = "input_value" THEN i
                ELSE [value |-> "user", show |-> FALSE, advanced |-> FALSE,
                      tool_mode |-> FALSE]]
       IN  node = [display_name |-> name, template |-> template]
  /\ shown = shownTemplateFields(node, isToolMode)
  /\ setNodeCall = NoNode
  /\ env = NoEnv
  /\ twin = NoTwin
  /\ kind = "BuilderOnlyGuard"
  /\ mounted = FALSE
  /\ mountPath = Null
  /\ entries = <<>>
  /\ idx = 0
  /\ routerLoc = Null
  /\ blockerState = "unblocked"
  /\ blockerLocation = Null
  /\ renderedPath = Null
  /\ lastValidFlowRoute = Null
  /\ listeners = 0
  /\ handlerPath = Null
  /\ pendingGo = 0
  /\ ev = Event("none", Null, FALSE, <<>>)
  /\ run = NoRun
  /\ NODE_ENV = "production"
  /\ console = <<>>
  /\ seen = Null
  /\ probe = <<>>
  /\ verdict = NoVerdict

guardVars == <<kind, enabled, mounted, mountPath, entries, idx, routerLoc,
               blockerState, blockerLocation, renderedPath,
               lastValidFlowRoute, listeners, handlerPath, pendingGo, ev,
               run, NODE_ENV, console, probe, verdict, seen, twin>>

\* The default-values effect runs for data.node; setNode stores its node.
DefaultsEffect ==
  LET r == defaultValuesEffect(node)
  IN  /\ node' = r.node
      /\ setNodeCall' = r.call
      /\ UNCHANGED <<isToolMode, shown, env, guardVars>>

\* The component renders with the isToolMode its parent gives it.
Render ==
  \E tm \in BOOLEAN :
    /\ isToolMode' = tm
    /\ shown' = shownTemplateFields(node, tm)
    /\ UNCHANGED <<node, setNodeCall, env, guardVars>>

NextNode ==
  \/ DefaultsEffect
  \/ Render

SpecNode == InitNode /\ [][NextNode]_vars

\* ------------------------------------------- the node and the build
\* What the .env file of a build can give a variable: nothing, the empty
\* string (VITE_X=) or a value.
EnvValues == {Undefined, "", "configured"}

\* A node of either display name whose template has any of the three Agent
\* fields, empty or filled in by the user, in a build with any setting of
\* the three variables; the component has rendered it once.
InitEnv ==
  /\ enabled \in BOOLEAN
  /\ isToolMode = FALSE
  /\ env \in [api_key : EnvValues, agent_llm : EnvValues,
               model_name : EnvValues]
  /\ \E name \in {"Agent", "Prompt"},
        h \in [AgentFields -> Values \cup {Undefined}] :
       LET D == {f \in AgentFields : h[f] # Undefined}
           template ==
             [f \in D \cup {"input_value", "_type"} |->
                [value |-> IF f \in D THEN h[f] ELSE "user",
                 show |-> f # "_type", advanced |-> FALSE,
                 tool_mode |-> FALSE]]
       IN  node = [display_name |-> name, template |-> template]
  /\ shown = shownTemplateFields(node, isToolMode)
  /\ setNodeCall = NoNode
  /\ twin = NoTwin
  /\ kind = "BuilderOnlyGuard"
  /\ mounted = FALSE
  /\ mountPath = Null
  /\ entries = <<>>
  /\ idx = 0
  /\ routerLoc = Null
  /\ blockerState = "unblocked"
  /\ blockerLocation = Null
  /\ renderedPath = Null
  /\ lastValidFlowRoute = Null
  /\ listeners = 0
  /\ handlerPath = Null
  /\ pendingGo = 0
  /\ ev = Event("none", Null, FALSE, <<>>)
  /\ run = NoRun
  /\ NODE_ENV = "production"
  /\ console = <<>>
  /\ seen = Null
  /\ probe = <<>>
  /\ verdict = NoVerdict

SpecEnv == InitEnv /\ [][NextNode]_vars

\* -------------------------------------------------- the pattern alone
\* The inputs of the pattern: the documented paths, the paths of the guard
\* model, and every head below followed by up to MaxTail characters of "/"
\* and "a".
Heads ==
  { <<>>,
    <<"/", "f", "l", "o", "w">>,
    <<"/", "f", "l", "o", "w", "s">>,
    <<"f", "l", "o", "w">>,
    <<"/", "a", "/", "f", "l", "o", "w">>,
    <<"/", "F", "l", "o", "w">> }

Tails == UNION { [1..n -> {"/", "a"}] : n \in 0..MaxTail }

PatternInputs ==
  { h \o tl : h \in Heads, tl \in Tails }
    \cup { Chars(p) : p \in DocPaths \cup Paths }

\* A path is about to be classified; no guard is mounted.
InitPattern ==
  /\ probe \in PatternInputs
  /\ verdict = NoVerdict
  /\ kind = "BuilderOnlyGuard"
  /\ enabled \in BOOLEAN
  /\ mounted = FALSE
  /\ mountPath = Null
  /\ entries = <<>>
  /\ idx = 0
  /\ routerLoc = Null
  /\ blockerState = "unblocked"
  /\ blockerLocation = Null
  /\ renderedPath = Null
  /\ lastValidFlowRoute = Null
  /\ listeners = 0
  /\ handlerPath = Null
  /\ pendingGo = 0
  /\ ev = Event("none", Null, FALSE, <<>>)
  /\ run = NoRun
  /\ NODE_ENV = "production"
  /\ console = <<>>
  /\ seen = Null
  /\ NoNodeState

\* ALLOWED_FLOW_PATTERN.test(probe)
PatternTest ==
  /\ verdict = NoVerdict
  /\ verdict' = [op |-> "test", match |-> ALLOWED_FLOW_PATTERN_test(probe)]
  /\ UNCHANGED <<kind, enabled, mounted, mountPath, entries, idx, routerLoc,
                 blockerState, blockerLocation, renderedPath,
                 lastValidFlowRoute, listeners, handlerPath, pendingGo, ev,
                 run, NODE_ENV, console, probe, seen, nodeVars, twin>>

\* The blocker callback of BuilderOnlyGuard for the in-app transition from
\* /flow/id to a documented path.
BlockerTest ==
  /\ verdict = NoVerdict
  /\ \E next \in DocPaths :
       /\ Chars(next) = probe
       /\ verdict' = [op |-> "block", to |-> next,
                      vetoed |-> BuilderOnlyGuard_blocker(FlowId, next)]
  /\ UNCHANGED <<kind, enabled, mounted, mountPath, entries, idx, routerLoc,
                 blockerState, blockerLocation, renderedPath,
                 lastValidFlowRoute, listeners, handlerPath, pendingGo, ev,
                 run, NODE_ENV, console, probe, seen, nodeVars, twin>>

NextPattern ==
  \/ PatternTest
  \/ BlockerTest

SpecPattern == InitPattern /\ [][NextPattern]_vars


\* ---------------------------------------------------------- properties
Blocking == {"BuilderOnlyGuard", "RouteBlocker"}

\* Every guard reaction has been processed: the effects of the current
\* location have run and no history.go(-1) is still due.
Quiescent == mounted /\ renderedPath = routerLoc /\ pendingGo = 0

\* C1 (confinement): BuilderOnlyGuard and RouteBlocker, enabled and mounted at
\* a matching location: in every state in which all guard reactions have been
\* processed, the rendered location and the URL match the pattern.
C1_Confinement ==
  (enabled /\ kind \in Blocking /\ ALLOWED_FLOW_PATTERN(mountPath) /\ Quiescent)
    => (ALLOWED_FLOW_PATTERN(routerLoc) /\ ALLOWED_FLOW_PATTERN(entries[idx]))

C1_Witness ==
  /\ enabled /\ kind \in Blocking /\ ALLOWED_FLOW_PATTERN(mountPath) /\ Quiescent
  /\ ev.op = "pop" /\ ~ALLOWED_FLOW_PATTERN(ev.to)
  /\ ALLOWED_FLOW_PATTERN(routerLoc)

\* C2 (invariant I2): an in-app transition A -> B submitted to the blocker of
\* BuilderOnlyGuard or RouteBlocker is vetoed if and only if enabled is true,
\* A matches the pattern and B does not.
C2_VetoIff ==
  [][(ev'.op = "navigate" /\ mounted /\ kind \in Blocking)
      => (ev'.vetoed <=> (enabled /\ ALLOWED_FLOW_PATTERN(routerLoc)
                                  /\ ~ALLOWED_FLOW_PATTERN(ev'.to)))]_vars

\* A veto leaves the rendered location where it was: A is routerLoc.
C2_Witness ==
  /\ ev.op = "navigate" /\ mounted /\ kind = "RouteBlocker"
  /\ ev.vetoed /\ routerLoc = FlowA /\ ev.to = Root

\* C3: with enabled = true, an in-app transition from a matching P to a
\* non-matching Q is vetoed and leaves the rendered location, the history
\* stack (entries and index) and lastValidLocation as they were.
C3_VetoLeavesState ==
  [][(ev'.op = "navigate" /\ mounted /\ enabled /\ kind \in Blocking
        /\ ALLOWED_FLOW_PATTERN(routerLoc) /\ ~ALLOWED_FLOW_PATTERN(ev'.to))
      => (/\ ev'.vetoed
          /\ routerLoc' = routerLoc
          /\ entries' = entries
          /\ idx' = idx
          /\ lastValidFlowRoute' = lastValidFlowRoute)]_vars

C3_Witness ==
  /\ ev.op = "navigate" /\ mounted /\ enabled /\ kind = "BuilderOnlyGuard"
  /\ ev.vetoed /\ ev.to = Settings
  /\ routerLoc = FlowB /\ blockerState = "blocked" /\ blockerLocation = Settings
  /\ lastValidFlowRoute = FlowB

\* C4: an in-app transition between two matching locations is never vetoed,
\* whatever enabled is and whatever happened before; the rendered location
\* becomes the target, and the guard issues no navigate call, neither in the
\* transition nor in a render of a matching location.
C4_ValidToValidAllowed ==
  [][/\ (ev'.op = "navigate" /\ ALLOWED_FLOW_PATTERN(routerLoc)
           /\ ALLOWED_FLOW_PATTERN(ev'.to))
         => (~ev'.vetoed /\ routerLoc' = ev'.to /\ ev'.calls = <<>>)
     /\ (ev'.op = "render" /\ ALLOWED_FLOW_PATTERN(ev'.to))
         => \A i \in 1..Len(ev'.calls) :
              ev'.calls[i].fn \notin {"replace", "push", "back"}]_vars

C4_Witness ==
  /\ enabled /\ mounted /\ kind = "BuilderOnlyGuard"
  /\ ev.op = "navigate" /\ ev.to = FlowB /\ ~ev.vetoed /\ ev.calls = <<>>
  /\ routerLoc = FlowB /\ entries = <<FlowA, FlowB>> /\ idx = 2
  /\ mountPath = FlowA /\ renderedPath = FlowA /\ lastValidFlowRoute = FlowA

\* C5: with enabled = false no in-app transition is vetoed, whatever the
\* current and the next location are.
C5_DisabledNeverVetoes ==
  (ev.op = "navigate" /\ ~enabled) => ~ev.vetoed

C5_Witness ==
  /\ ~enabled /\ mounted /\ kind \in Blocking
  /\ ev.op = "navigate" /\ ev.to = Settings /\ ~ev.vetoed
  /\ routerLoc = Settings /\ entries = <<FlowA, Settings>> /\ idx = 2
  /\ mountPath = FlowA /\ renderedPath = FlowA

\* C6 (Free state): with enabled = false the guard registers no popstate
\* listener and issues no navigate, replace, pushState or step-back call,
\* while the tracker of BuilderOnlyGuard holds every rendered location that
\* matches the pattern.
C6_FreeIsInert ==
  ~enabled =>
    /\ ~listener
    /\ ev.calls = <<>>
    /\ pendingGo = 0
    /\ (kind = "BuilderOnlyGuard" /\ mounted /\ ALLOWED_FLOW_PATTERN(renderedPath))
         => lastValidFlowRoute = renderedPath

C6_Witness ==
  /\ ~enabled /\ mounted /\ kind = "BuilderOnlyGuard"
  /\ ev.op = "render" /\ ev.to = FlowB /\ mountPath = FlowA
  /\ lastValidFlowRoute = FlowB /\ ~listener


C8_CorrectionIsReplace ==
  [][(ev'.op \in {"pop", "go"} /\ ev'.calls # <<>>)
      => (/\ Len(entries') = Len(entries)
          /\ \A i \in 1..Len(ev'.calls) :
               ev'.calls[i].fn \notin {"push", "pushState"})]_vars

\* The same for the two components that have a blocker.
C8_BlockingCorrectionIsReplace ==
  [][(ev'.op \in {"pop", "go"} /\ ev'.calls # <<>> /\ kind \in Blocking)
      => (/\ Len(entries') = Len(entries)
          /\ \A i \in 1..Len(ev'.calls) :
               ev'.calls[i].fn \notin {"push", "pushState"})]_vars


\* C9 (idempotence of correction), as the code has it: after N >= 1
\* consecutive blocked native back attempts by one entry from a confined
\* state, the rendered location and the length of the history stack are
\* those after the first of them.
C9_SameLocationAndLength ==
  run.n >= 1 => (routerLoc = run.loc /\ Len(entries) = Len(run.entries))

\* Two blocked attempts under RouteBlocker: the second overwrote one more
\* entry and left the index one lower than the first.
C9_Witness ==
  /\ run.n = 2 /\ kind = "RouteBlocker"
  /\ run.entries = <<Settings, FlowA, FlowA>> /\ run.idx = 2
  /\ entries = <<FlowA, FlowA, FlowA>> /\ idx = 1
  /\ routerLoc = FlowA

\* C9 as claimed: N consecutive blocked back attempts end in the same
\* rendered location and the same history stack (entries and index) as a
\* single blocked attempt.
C9_SameStack ==
  run.n >= 1 => (routerLoc = run.loc /\ entries = run.entries /\ idx = run.idx)

C11_NeverUnset ==
  [][(kind = "BuilderOnlyGuard" /\ mounted' /\ lastValidFlowRoute # Null)
      => lastValidFlowRoute' \in Paths]_vars

\* A non-matching location was rendered with the flag off and the ref still
\* holds the route recorded before.
C11_Witness ==
  /\ kind = "BuilderOnlyGuard" /\ mounted /\ ~enabled
  /\ ev.op = "render" /\ ev.to = Settings /\ renderedPath = Settings
  /\ mountPath = FlowA /\ lastValidFlowRoute = FlowA

\* C12: lastValidFlowRoute is none or a location that matches the pattern
\* (and so is the path the popstate handler of any of the guards holds); it is
\* none exactly when no matching location has been rendered since the mount:
\* it is set at the mount exactly when the mount location matches, every
\* render of a matching location sets it, and nothing else populates it.
C12_TrackerHoldsValid ==
  /\ (kind = "BuilderOnlyGuard" /\ mounted)
       => ((lastValidFlowRoute # Null) <=> ALLOWED_FLOW_PATTERN(mountPath))
  /\ [][/\ (lastValidFlowRoute' # Null
              => (lastValidFlowRoute' \in Paths
                    /\ ALLOWED_FLOW_PATTERN(lastValidFlowRoute')))
        /\ (handlerPath' # Null => ALLOWED_FLOW_PATTERN(handlerPath'))
        /\ (kind = "BuilderOnlyGuard" /\ ev'.op = "render"
              /\ ALLOWED_FLOW_PATTERN(ev'.to))
             => lastValidFlowRoute' = ev'.to
        /\ (lastValidFlowRoute = Null /\ lastValidFlowRoute' # Null)
             => (kind = "BuilderOnlyGuard" /\ ev'.op = "render"
                   /\ ALLOWED_FLOW_PATTERN(ev'.to))]_vars

\* Mounted at /settings, the guard has rendered / as well and still holds
\* nothing.
C12_Witness ==
  /\ kind = "BuilderOnlyGuard" /\ mounted /\ ~enabled
  /\ mountPath = Settings /\ ev.op = "render" /\ ev.to = Root
  /\ renderedPath = Root /\ lastValidFlowRoute = Null

\* C13: Confined-Invalid is transient: once the reactions of an enabled
\* BuilderOnlyGuard have been processed, the rendered location matches the
\* pattern, for every history stack and every lastValidFlowRoute.
C13_InvalidIsTransient ==
  (kind = "BuilderOnlyGuard" /\ enabled /\ Quiescent)
    => ALLOWED_FLOW_PATTERN(routerLoc)

C15_RenderCorrects ==
  [][(ev'.op = "render" /\ enabled /\ ~ALLOWED_FLOW_PATTERN(ev'.to))
      => ev'.calls # <<>>]_vars

\* The same for BuilderOnlyGuard alone.
C15_GuardRenderCorrects ==
  [][(ev'.op = "render" /\ enabled /\ ~ALLOWED_FLOW_PATTERN(ev'.to)
        /\ kind = "BuilderOnlyGuard")
      => ev'.calls # <<>>]_vars

\* C16: after the unmount no popstate handler of the guard is subscribed and
\* no operation makes the guard issue a call, whatever happened before.
C16_ReleasedOnUnmount ==
  ~mounted => (~listener /\ handlerPath = Null /\ ev.calls = <<>>)

\* A native pop to /settings after the unmount of an enabled guard that had
\* rendered /flow/b: the location stays /settings.
C16_Witness ==
  /\ ~mounted /\ enabled /\ kind \in Blocking
  /\ ALLOWED_FLOW_PATTERN(mountPath)
  /\ ev.op = "pop" /\ ev.to = Settings /\ routerLoc = Settings
  /\ entries[idx] = Settings

\* What is left for the guard to do: four per history entry below the top of
\* the part it can step back over, two per pending step back, and for a due
\* render one if the location matches and three if it does not.
Debt ==
  (IF kind = "usePreventNavigation" THEN 0 ELSE 4 * idx)
  + 2 * pendingGo
  + (IF ~mounted \/ renderedPath = routerLoc THEN 0
     ELSE IF ALLOWED_FLOW_PATTERN(routerLoc) THEN 1 ELSE 3)

\* C17 (no navigation loop): every reaction of the guard (an effects pass, the
\* arrival of a step back it issued) strictly lowers a natural-number
\* measure, so without user events only finitely many reactions follow; when
\* none is left the state is quiescent.
C17_ReactionsTerminate ==
  [][ev'.op \in {"render", "go"} => (Debt' < Debt /\ Debt' >= 0)]_vars

\* The last of a chain of reactions: the second step back of a guard mounted
\* at /settings above / found nothing below.
C17_Witness ==
  /\ kind = "BuilderOnlyGuard" /\ enabled /\ mounted
  /\ mountPath = Settings /\ entries = <<Root, Settings>> /\ idx = 1
  /\ ev.op = "go" /\ ev.to = Null /\ pendingGo = 0 /\ renderedPath = routerLoc


\* C18: diagnostics are development-only: no console record about a blocked
\* or corrected navigation is emitted when NODE_ENV is not "development".
C18_LogsOnlyInDevelopment ==
  NODE_ENV # "development" => console = <<>>

\* The same for the records of the log effects alone, those of a vetoed
\* navigation.
C18_BlockedLogOnlyInDevelopment ==
  \A i \in DOMAIN console :
    console[i].attempted # Null => NODE_ENV = "development"

\* A vetoed navigation in the development build has left its record.
C18_BlockedLogged ==
  /\ NODE_ENV = "development" /\ ev.op = "navigate" /\ ev.vetoed
  /\ console = <<[tag |-> "RouteBlocker: navigation blocked",
                  attempted |-> Settings, current |-> FlowA]>>


\* The segments of a path: the runs of characters between its "/".
RECURSIVE Split(_)
Split(c) ==
  IF c = <<>> THEN << <<>> >>
  ELSE LET r == Split(Tail(c))
       IN  IF Head(c) = "/" THEN << <<>> >> \o r
           ELSE << <<Head(c)>> \o r[1] >> \o Tail(r)

C20_DocumentedExamples ==
  /\ (verdict.op = "test"
        /\ probe \in {Chars(FlowAbc), Chars(Flow123), Chars(FlowAnyId)})
       => verdict.match
  /\ (verdict.op = "test"
        /\ probe \in {Chars(FlowSlash), Chars(Flows), Chars(FlowIdView)})
       => ~verdict.match
  /\ (verdict.op = "block" /\ enabled /\ verdict.to = FlowIdView)
       => verdict.vetoed

\* The documented classification without /flow/id/view.
C20_DocumentedWithoutView ==
  /\ (verdict.op = "test"
        /\ probe \in {Chars(FlowAbc), Chars(Flow123), Chars(FlowAnyId)})
       => verdict.match
  /\ (verdict.op = "test" /\ probe \in {Chars(FlowSlash), Chars(Flows)})
       => ~verdict.match
  /\ (verdict.op = "block" /\ enabled /\ verdict.to \in {FlowSlash, Flows})
       => verdict.vetoed


\* The state with everything but the rendered location forgotten: no earlier
\* transition, no veto, no tracked route, a history of one entry.
Forget ==
  [Cur EXCEPT !.entries = <<routerLoc>>, !.idx = 1,
              !.blockerState = "unblocked", !.blockerLocation = Null,
              !.lastValidFlowRoute = Null, !.listeners = 0,
              !.handlerPath = Null, !.pendingGo = 0]

\* C21: the veto decision of BuilderOnlyGuard and RouteBlocker is memoryless:
\* in every reachable state and for every next location the decision is the
\* one taken with everything but the current location forgotten, a function
\* of enabled, the current and the next location alone; so a transition
\* between two matching locations is allowed after any number of vetoes.
C21_VetoMemoryless ==
  (mounted /\ kind \in Blocking) =>
    \A to \in Paths, replace \in BOOLEAN :
      LET here  == routerNavigate(Cur, to, replace).blockerState = "blocked"
          fresh == routerNavigate(Forget, to, replace).blockerState = "blocked"
      IN  /\ here <=> fresh
          /\ here <=> (enabled /\ ALLOWED_FLOW_PATTERN(routerLoc)
                               /\ ~ALLOWED_FLOW_PATTERN(to))

\* A veto has just left the blocker blocked at /flow/b, which was entered
\* from /flow/a and not rendered yet; the transition back to /flow/a is
\* allowed.
C21_Witness ==
  /\ kind = "BuilderOnlyGuard" /\ enabled /\ mounted
  /\ ev.op = "navigate" /\ ev.vetoed /\ blockerState = "blocked"
  /\ routerLoc = FlowB /\ lastValidFlowRoute = FlowA
  /\ routerNavigate(Cur, FlowA, FALSE).routerLoc = FlowA

NeverValid ==
  /\ mounted /\ ~ALLOWED_FLOW_PATTERN(mountPath)
  /\ ~ALLOWED_FLOW_PATTERN(routerLoc) /\ ~ALLOWED_FLOW_PATTERN(renderedPath)

PoppedToValid ==
  /\ ev.op = "pop" /\ ev.to = routerLoc /\ ALLOWED_FLOW_PATTERN(routerLoc)
  /\ renderedPath # routerLoc

\* C26: back-to-back native events: with enabled = true, a native pop to a
\* non-matching location that follows a native pop to a matching location P2
\* before the guard has rendered P2 is corrected to P2.
C26_CorrectionTargetsLatest ==
  [][(PoppedToValid /\ enabled /\ listener
        /\ ev'.op = "pop" /\ ~ALLOWED_FLOW_PATTERN(ev'.to))
      => routerLoc' = routerLoc]_vars

\* The same for usePreventNavigation alone, whose handler keeps its current
\* path up to date.
C26_HookTargetsLatest ==
  [][(PoppedToValid /\ enabled /\ listener /\ kind = "usePreventNavigation"
        /\ ev'.op = "pop" /\ ~ALLOWED_FLOW_PATTERN(ev'.to))
      => routerLoc' = routerLoc]_vars

\* usePreventNavigation, mounted at /flow/a, has accepted a native pop to
\* /flow/b and then corrected one to /settings, to /flow/b.
C26_HookWitness ==
  /\ kind = "usePreventNavigation" /\ enabled /\ mounted
  /\ mountPath = FlowA /\ renderedPath = FlowA
  /\ ev.op = "pop" /\ ev.to = Settings /\ routerLoc = FlowB
  /\ ev.calls = <<Call("pushState", FlowB), Call("replace", FlowB)>>

\* C28: in BuilderOnlyGuard, whenever a popstate handler is registered, the
\* location it navigates to on an invalid pop is lastValidFlowRoute.current.
C28_HandlerPathIsLastValid ==
  (kind = "BuilderOnlyGuard" /\ listener)
    => (handlerPath # Null /\ handlerPath = lastValidFlowRoute)

\* The handler registered for /flow/b, the second matching location rendered.
C28_Witness ==
  /\ kind = "BuilderOnlyGuard" /\ enabled /\ mounted /\ listener
  /\ mountPath = FlowA /\ renderedPath = FlowB
  /\ handlerPath = FlowB /\ lastValidFlowRoute = FlowB

\* C30: every replace, push or pushState the guard issues targets a location
\* that matches the pattern.
C30_GuardWritesValid ==
  \A i \in DOMAIN ev.calls :
    ev.calls[i].fn \in {"replace", "push", "pushState"}
      => (ev.calls[i].to \in Paths /\ ALLOWED_FLOW_PATTERN(ev.calls[i].to))

\* usePreventNavigation has corrected a native pop to /settings with a
\* pushState and a replace, both to /flow/b.
C30_Witness ==
  /\ kind = "usePreventNavigation" /\ enabled /\ mounted
  /\ ev.op = "pop" /\ ev.to = Settings
  /\ ev.calls = <<Call("pushState", FlowB), Call("replace", FlowB)>>


\* C29: after the effects of each render have run, a mounted guard has a
\* popstate handler registered exactly when enabled is true and the rendered
\* location matches the pattern, and never more than one.
C29_ListenerLifecycle ==
  mounted =>
    /\ listener <=> (enabled /\ ALLOWED_FLOW_PATTERN(renderedPath))
    /\ listeners <= 1

\* The guard has rendered /flow/a and then /flow/b and holds one handler, the
\* one for /flow/b.
C29_Witness ==
  /\ mounted /\ enabled /\ listeners = 1
  /\ mountPath = FlowA /\ ev.op = "render" /\ ev.to = FlowB
  /\ renderedPath = FlowB /\ handlerPath = FlowB


\* C25 (no stale read): in every effects pass of BuilderOnlyGuard the tracker
\* has stored the rendered location, if it matches, before the correction
\* reads lastValidFlowRoute.current: after the pass the ref holds the most
\* recent matching location rendered, a correction by replace targets that
\* location, and the pass steps back only when there is none.
C25_NoStaleRead ==
  ev.op \in {"mount", "render"} =>
    /\ lastValidFlowRoute = seen
    /\ \A i \in DOMAIN ev.calls :
         /\ ev.calls[i].fn = "replace" => ev.calls[i].to = seen
         /\ ev.calls[i].fn = "back" => seen = Null

\* /flow/a and /flow/b were rendered in turn; the pass for /settings has
\* corrected to /flow/b.
C25_Witness ==
  /\ enabled /\ mountPath = FlowA /\ seen = FlowB
  /\ ev.op = "render" /\ ev.to = Settings
  /\ ev.calls = <<Call("replace", FlowB)>> /\ routerLoc = FlowB


\* C24 (Agent fields hidden, nothing else touched): with builder-only mode
\* on, agent_llm, api_key and model_name are never among the rendered
\* fields of a node whose display name is Agent, whatever their show,
\* advanced and tool_mode attributes; for every other node, and for every
\* node with the mode off, the rendered fields are those rendered without
\* the feature.
C24_AgentFieldsHidden ==
  node # NoNode =>
    IF ENABLE_BUILDER_ONLY_MODE /\ node.display_name = "Agent"
      THEN shown \cap AgentFields = {}
      ELSE shown =
             {f \in DOMAIN node.template :
                /\ charAt0(f) # "_"
                /\ node.template[f].show
                /\ ~node.template[f].advanced
                /\ ~(node.template[f].tool_mode /\ isToolMode)}

\* An Agent node in builder-only mode has an api_key field that would be
\* shown without the feature; after the effect has stored its defaults the
\* render shows input_value and not api_key.
C24_Witness ==
  /\ node # NoNode /\ enabled /\ node.display_name = "Agent"
  /\ AgentFields \subseteq DOMAIN node.template
  /\ node.template["api_key"].show
  /\ ~node.template["api_key"].advanced
  /\ ~node.template["api_key"].tool_mode
  /\ isToolMode /\ setNodeCall = node
  /\ "input_value" \in shown
  /\ "api_key" \notin shown

\* The field f of the node was empty and now holds its default.
Filled(f) ==
  /\ f \in AgentFields
  /\ node.template[f].value = ""
  /\ node'.template[f] = [node.template[f] EXCEPT !.value = DefaultOf(f)]

\* C27 (default filling never overwrites user data): a step of the
\* component changes a field of the node only by writing the default of
\* api_key, agent_llm or model_name into that field of an Agent node in
\* builder-only mode when its value is empty; it adds and removes no field;
\* and the effect calls setNode only in a step that filled a field.
C27_DefaultsNeverOverwrite ==
  [][node # NoNode =>
       /\ node'.display_name = node.display_name
       /\ DOMAIN node'.template = DOMAIN node.template
       /\ \A f \in DOMAIN node.template :
            node'.template[f] # node.template[f] =>
              /\ ENABLE_BUILDER_ONLY_MODE
              /\ node.display_name = "Agent"
              /\ Filled(f)
       /\ (setNodeCall' # NoNode /\ setNodeCall' # setNodeCall) =>
            /\ setNodeCall' = node'
            /\ \E f \in DOMAIN node.template : Filled(f)]_vars

\* The effect has filled the empty model_name of an Agent node and has left
\* the api_key the user entered and the absence of agent_llm as they were.
C27_Witness ==
  /\ node # NoNode /\ enabled /\ node.display_name = "Agent"
  /\ setNodeCall = node
  /\ DOMAIN node.template \cap AgentFields = {"api_key", "model_name"}
  /\ node.template["api_key"].value = "user"
  /\ node.template["model_name"].value = DEFAULT_AGENT_MODEL_NAME


\* C32 (the effect reaches a fixed point): once the effect has called
\* setNode, the effect run on the node it stored changes nothing and does
\* not call setNode, whatever the build sets the defaults to.
C32_FixedPoint ==
  setNodeCall # NoNode =>
    defaultValuesEffect(setNodeCall) = [node |-> setNodeCall, call |-> NoNode]

\* The same, for the builds in which no default is the empty string.
C32_FixedPointNonEmptyDefaults ==
  (\A f \in AgentFields : DefaultOf(f) # "") => C32_FixedPoint

\* The effect has filled an empty api_key with the default a build sets.
C32_NonEmptyWitness ==
  /\ setNodeCall # NoNode /\ setNodeCall = node
  /\ env.api_key = "configured"
  /\ "api_key" \in DOMAIN node.template
  /\ node.template["api_key"].value = "configured"
  /\ \A f \in AgentFields : DefaultOf(f) # ""


\* usePreventNavigation is enabled and the pathname p matches: the effect of
\* a render at p activates the hook.
HookActivates(p) ==
  kind = "usePreventNavigation" /\ enabled /\ allowedPattern(p)

\* The activation at mount has pushed the mount path on top of itself.
C31_MountPush ==
  (ev.op = "mount" /\ HookActivates(ev.to)) =>
    /\ ev.calls = <<Call("pushState", ev.to)>>
    /\ idx >= 2 /\ idx = Len(entries)
    /\ entries[idx] = ev.to /\ entries[idx - 1] = ev.to
    /\ routerLoc = ev.to

\* A pass of the hook that does not activate it, and its unmount, leave the
\* history as it is.
C31_NoRemoval ==
  /\ kind = "usePreventNavigation"
  /\ \/ ev'.op = "unmount"
     \/ ev'.op = "render" /\ ~HookActivates(ev'.to)
  => /\ entries' = entries
     /\ idx' = idx

\* C31 as stated: each activation of usePreventNavigation pushes exactly
\* one entry whose path is the current path; the visible URL is unchanged,
\* the history stack is one entry longer, and deactivation and unmount do
\* not remove the entry.
C31_ActivationGrowsByOne ==
  /\ []C31_MountPush
  /\ [][/\ (ev'.op = "render" /\ HookActivates(ev'.to)) =>
             /\ ev'.calls = <<Call("pushState", ev'.to)>>
             /\ entries'[idx'] = entries[idx]
             /\ routerLoc' = routerLoc
             /\ idx' = idx + 1
             /\ Len(entries') = Len(entries) + 1
          /\ C31_NoRemoval]_vars

\* C31 amended: each activation of usePreventNavigation pushes exactly one
\* entry whose path is the current path; the visible URL is unchanged, the
\* entries up to the current one are kept, the entries after it are
\* discarded and the pushed entry becomes the last and the current one;
\* deactivation and unmount do not remove it.
C31_ActivationPushesOnCurrent ==
  /\ []C31_MountPush
  /\ [][/\ (ev'.op = "render" /\ HookActivates(ev'.to)) =>
             /\ ev'.calls = <<Call("pushState", ev'.to)>>
             /\ entries'[idx'] = entries[idx]
             /\ routerLoc' = routerLoc
             /\ idx' = idx + 1
             /\ entries' = Append(SubSeq(entries, 1, idx), entries[idx])
          /\ C31_NoRemoval]_vars

\* The hook, mounted at /flow/a, a later entry than /flow/b, was taken back
\* to /flow/b by the browser; its activation there has pushed /flow/b and
\* the entries of /flow/a are gone.
C31_Witness ==
  /\ kind = "usePreventNavigation" /\ enabled /\ mounted
  /\ mountPath = FlowA
  /\ ev.op = "render" /\ ev.to = FlowB
  /\ ev.calls = <<Call("pushState", FlowB)>>
  /\ entries = <<FlowB, FlowB>> /\ idx = 2


\* C33 (RouteBlocker behaves like BuilderOnlyGuard): given the same in-app
\* transitions and native history events from the same matching location,
\* RouteBlocker with enabled = ENABLE_BUILDER_ONLY_MODE and allowedPattern =
\* ALLOWED_FLOW_PATTERN and BuilderOnlyGuard have, after every step, taken
\* the same veto decision and have the same visible location and the same
\* history stack; neither has a history.go in flight.
C33_RouteBlockerLikeGuard ==
  twin # NoTwin =>
    /\ twin.ev.op = ev.op
    /\ twin.ev.vetoed = ev.vetoed
    /\ twin.s.routerLoc = routerLoc
    /\ twin.s.entries = entries
    /\ twin.s.idx = idx
    /\ twin.renderedPath = renderedPath
    /\ twin.s.pendingGo = 0 /\ pendingGo = 0

\* Both have vetoed the in-app navigation to /settings after both corrected
\* a native pop to a non-matching entry by the same replace.
C33_Witness ==
  /\ twin # NoTwin /\ enabled /\ mounted
  /\ ev.op = "navigate" /\ ev.to = Settings /\ ev.vetoed /\ twin.ev = ev
  /\ mountPath = FlowB /\ routerLoc = FlowA
  /\ entries = <<FlowA, FlowB>> /\ idx = 1

\* Both have corrected a native pop to a non-matching entry.
C33_PopWitness ==
  /\ twin # NoTwin /\ enabled /\ mounted
  /\ ev.op = "pop" /\ ~ALLOWED_FLOW_PATTERN(ev.to)
  /\ ev.calls = <<Call("replace", FlowA)>> /\ twin.ev = ev

====
